---- MODULE Spec2Model ----
(***************************************************************************)
(* A model of pubsubsql: the per-value tag list (server/tag.go), the       *)
(* command lexer (parser/lexer.go) and the mysql bridge productions of the *)
(* parser (server/parser_mysql.go), and the client's Execute              *)
(* (client/client.go).  Each part has its own specification;               *)
(* the variables of the other parts stay at their initial values.          *)
(***************************************************************************)
EXTENDS Integers, Sequences, FiniteSets, TLC

VARIABLES
    heap,        \* tag objects: address -> [prev, next, idx]
    ntags,       \* number of tag objects allocated so far
    head,        \* the owner's head reference (Nil when the value has no list)
    handle,      \* row -> the tag its addTag returned (Nil: none)
    live,        \* rows added and not yet removed
    ownerTakes,  \* the owner's head discipline: "returned" | "first"
    locate,      \* how the owner finds the tag of a row: "handle" | "walk"
    phase,       \* "adding" | "removing" | "mixed" (an add after a removal)
    call,        \* the last call: [op, t, row, ret]
    l,           \* the lexer: [input, start, pos, width, tokens]
    state,       \* run's local: the name of the next state function
    p,           \* the parser: [tokens], with the tokens produced so far
    pc,          \* the production the parser is in
    result,      \* what parseSqlMysql returned
    client,      \* the client: [rw, requestId, errorString, rawjson]
    exec         \* the last call on the client: [op, werr, msg, sent, ret]

vars == <<heap, ntags, head, handle, live, ownerTakes, locate, phase, call,
          l, state, p, pc, result, client, exec>>

tagVars == <<heap, ntags, head, handle, live, ownerTakes, locate, phase, call>>
lexVars == <<l, state>>
parseVars == <<p, pc, result>>
clientVars == <<client, exec>>

(***************************************************************************)
(* Bounds                                                                  *)
(***************************************************************************)
MaxRows == 3
MaxTags == 4
MaxLen == 3
MaxStTail == 4
MaxStream == 3
MaxRequests == 4

\* All sequences over S of length at most n.
Strs(S, n) == UNION {[1..k -> S] : k \in 0..n}

Rows == 1..MaxRows
Addrs == 1..MaxTags

(***************************************************************************)
(* server/tag.go                                                           *)
(***************************************************************************)
Nil == 0

\* &tag{idx: idx}
tag(i) == [prev |-> Nil, next |-> Nil, idx |-> i]

\* addTag that leaves the prev link of head's former successor as it was
addTagNoBackLink(h, t, hd, i) ==
    LET h1 == [h EXCEPT ![t] = tag(i)]
    IN [heap |-> IF hd # Nil
                 THEN [h1 EXCEPT ![hd].next = t, ![t].next = h1[hd].next, ![t].prev = hd]
                 ELSE h1,
        ret |-> t]

\* addTag(head, idx); t is the address of the tag the allocation yields.
addTag(h, t, hd, i) ==
    LET h1 == [h EXCEPT ![t] = tag(i)]
        h2 == IF hd # Nil
              THEN [h1 EXCEPT ![hd].next = t,
                              ![t].next = h1[hd].next,
                              ![t].prev = hd]
              ELSE h1
        h3 == IF h2[t].next # Nil
              THEN [h2 EXCEPT ![h2[t].next].prev = t]
              ELSE h2
    IN [heap |-> h3, ret |-> t]

\* removeTag with the slide forgetting to copy the successor's idx
removeTagNoIdx(h, t) ==
    IF h[t].prev = Nil
    THEN IF h[t].next = Nil
         THEN [heap |-> h, ret |-> TRUE]
         ELSE LET freeMe == h[t].next
                  h1 == [h EXCEPT ![t].next = h[freeMe].next]
                  h2 == IF h1[t].next # Nil
                        THEN [h1 EXCEPT ![h1[t].next].prev = t]
                        ELSE h1
                  h3 == [h2 EXCEPT ![freeMe].prev = Nil, ![freeMe].next = Nil]
              IN [heap |-> h3, ret |-> FALSE]
    ELSE LET h1 == [h EXCEPT ![h[t].prev].next = h[t].next]
             h2 == IF h1[t].next # Nil
                   THEN [h1 EXCEPT ![h1[t].next].prev = h1[t].prev]
                   ELSE h1
             h3 == [h2 EXCEPT ![t].prev = Nil, ![t].next = Nil]
         IN [heap |-> h3, ret |-> FALSE]

\* removeTag that leaves the links of the discarded tag as they were
removeTagNoClear(h, t) ==
    IF h[t].prev = Nil
    THEN IF h[t].next = Nil
         THEN [heap |-> h, ret |-> TRUE]
         ELSE LET freeMe == h[t].next
                  h1 == [h EXCEPT ![t].idx = h[freeMe].idx,
                                  ![t].next = h[freeMe].next]
                  h2 == IF h1[t].next # Nil
                        THEN [h1 EXCEPT ![h1[t].next].prev = t]
                        ELSE h1
              IN [heap |-> h2, ret |-> FALSE]
    ELSE LET h1 == [h EXCEPT ![h[t].prev].next = h[t].next]
             h2 == IF h1[t].next # Nil
                   THEN [h1 EXCEPT ![h1[t].next].prev = h1[t].prev]
                   ELSE h1
         IN [heap |-> h2, ret |-> FALSE]

\* removeTag whose splice leaves the prev link of t's successor as it was
removeTagNoBackLink(h, t) ==
    IF h[t].prev = Nil
    THEN IF h[t].next = Nil
         THEN [heap |-> h, ret |-> TRUE]
         ELSE LET freeMe == h[t].next
                  h1 == [h EXCEPT ![t].idx = h[freeMe].idx,
                                  ![t].next = h[freeMe].next]
                  h2 == IF h1[t].next # Nil
                        THEN [h1 EXCEPT ![h1[t].next].prev = t]
                        ELSE h1
                  h3 == [h2 EXCEPT ![freeMe].prev = Nil, ![freeMe].next = Nil]
              IN [heap |-> h3, ret |-> FALSE]
    ELSE LET h1 == [h EXCEPT ![h[t].prev].next = h[t].next]
             h3 == [h1 EXCEPT ![t].prev = Nil, ![t].next = Nil]
         IN [heap |-> h3, ret |-> FALSE]

\* removeTag(t)
removeTag(h, t) ==
    IF h[t].prev = Nil
    THEN IF h[t].next = Nil
         THEN [heap |-> h, ret |-> TRUE]
         ELSE LET freeMe == h[t].next
                  h1 == [h EXCEPT ![t].idx = h[freeMe].idx,
                                  ![t].next = h[freeMe].next]
                  h2 == IF h1[t].next # Nil
                        THEN [h1 EXCEPT ![h1[t].next].prev = t]
                        ELSE h1
                  h3 == [h2 EXCEPT ![freeMe].prev = Nil, ![freeMe].next = Nil]
              IN [heap |-> h3, ret |-> FALSE]
    ELSE LET h1 == [h EXCEPT ![h[t].prev].next = h[t].next]
             h2 == IF h1[t].next # Nil
                   THEN [h1 EXCEPT ![h1[t].next].prev = h1[t].prev]
                   ELSE h1
             h3 == [h2 EXCEPT ![t].prev = Nil, ![t].next = Nil]
         IN [heap |-> h3, ret |-> FALSE]

\* The tags met by following next links from n, at most k of them.
RECURSIVE Walk(_, _, _)
Walk(h, n, k) ==
    IF n = Nil \/ k = 0 THEN <<>> ELSE <<n>> \o Walk(h, h[n].next, k - 1)

\* The walk from n ends at a nil next link (it meets no tag twice).
Acyclic(h, n) == Len(Walk(h, n, MaxTags + 1)) <= MaxTags

WalkIdx(h, n) == [k \in 1..Len(Walk(h, n, MaxTags)) |-> h[Walk(h, n, MaxTags)[k]].idx]

Range(s) == {s[k] : k \in 1..Len(s)}

\* The tag a walk from the owner's head finds for row r (Nil: none).
Find(h, hd, r) ==
    LET hits == {t \in Range(Walk(h, hd, MaxTags)) : h[t].idx = r}
    IN IF hits = {} THEN Nil ELSE CHOOSE t \in hits : TRUE

NoCall == [op |-> "none", t |-> Nil, row |-> 0, ret |-> FALSE]

TagInit ==
    /\ heap = [a \in Addrs |-> tag(0)]
    /\ ntags = 0
    /\ head = Nil
    /\ handle = [r \in Rows |-> Nil]
    /\ live = {}
    /\ ownerTakes \in {"returned", "first"}
    /\ locate \in {"handle", "walk"}
    /\ phase = "adding"
    /\ call = NoCall

\* A row acquires the value: the owner calls addTag(head, r).
AddTag(r) ==
    /\ r \notin live
    /\ ntags < MaxTags
    /\ LET res == addTag(heap, ntags + 1, head, r)
       IN /\ heap' = res.heap
          /\ handle' = [handle EXCEPT ![r] = res.ret]
          /\ head' = IF ownerTakes = "returned" \/ head = Nil THEN res.ret ELSE head
          /\ call' = [op |-> "addTag", t |-> res.ret, row |-> r, ret |-> FALSE]
    /\ ntags' = ntags + 1
    /\ live' = live \cup {r}
    /\ phase' = IF phase = "adding" THEN "adding" ELSE "mixed"
    /\ UNCHANGED <<ownerTakes, locate>>

\* A row releases the value: the owner calls removeTag on the row's tag and
\* clears its head when removeTag reports that the last element went.
RemoveTag(r) ==
    /\ r \in live
    /\ LET t == IF locate = "handle" THEN handle[r] ELSE Find(heap, head, r)
       IN /\ t # Nil
          /\ LET res == removeTag(heap, t)
             IN /\ heap' = res.heap
                /\ head' = IF res.ret THEN Nil ELSE head
                /\ call' = [op |-> "removeTag", t |-> t, row |-> r, ret |-> res.ret]
    /\ live' = live \ {r}
    /\ handle' = [handle EXCEPT ![r] = Nil]
    /\ phase' = IF phase = "adding" THEN "removing" ELSE phase
    /\ UNCHANGED <<ntags, ownerTakes, locate>>


(***************************************************************************)
(* parser/lexer.go                                                         *)
(*                                                                         *)
(* The input is a Go string: a sequence of bytes.  An ASCII byte is named  *)
(* by its character, the zero byte is "NUL", and "C2", "C3", "A0", "A9"    *)
(* are the bytes of the two-byte UTF-8 encodings used here.  A rune is     *)
(* named by its character or its code point; the rune of code point 0 is   *)
(* "NUL", which is also what next() returns at the end of the input.       *)
(***************************************************************************)
Rune0 == "NUL"

\* utf8.DecodeRuneInString(s[pos:]), for pos < len(s)
DecodeRuneInString(s, pos) ==
    LET b == s[pos + 1]
        c == IF pos + 2 <= Len(s) THEN s[pos + 2] ELSE "none"
    IN IF b = "C2" /\ c = "A0" THEN [rune |-> "U+00A0", width |-> 2]
       ELSE IF b = "C2" /\ c = "A9" THEN [rune |-> "U+00A9", width |-> 2]
       ELSE IF b = "C3" /\ c = "A0" THEN [rune |-> "U+00E0", width |-> 2]
       ELSE IF b = "C3" /\ c = "A9" THEN [rune |-> "U+00E9", width |-> 2]
       ELSE IF b \in {"C2", "C3", "A0", "A9"} THEN [rune |-> "U+FFFD", width |-> 1]
       ELSE [rune |-> b, width |-> 1]

\* unicode.IsSpace, unicode.IsLetter, unicode.IsDigit on the runes of the model
IsSpace(r) == r \in {" ", "\n", "U+00A0"}
IsLetter(r) ==
    r \in {"a", "b", "c", "d", "e", "h", "i", "l", "n", "o", "p", "r", "s",
           "t", "u", "x", "U+00E0", "U+00E9"}
IsDigit(r) == r \in {"1"}

Token(typ, val) == [typ |-> typ, val |-> val]

\* l.tokens.Consume(t)
Consume(lx, t) == [lx EXCEPT !.tokens = Append(@, t)]

\* fmt.Sprintf(format) without arguments: the format itself, as no byte of
\* the model's inputs is a '%'.
Sprintf(format) == format

\* errorToken that hands back a next state instead of nil
errorTokenGoesOn(lx, format) ==
    [l |-> Consume(lx, Token("tokenTypeError", Sprintf(format))),
     fn |-> "lexSqlInsertIntoTableLeftParenthesis"]

\* The error token is delivered and nil is the next state.
errorToken(lx, format) ==
    [l |-> Consume(lx, Token("tokenTypeError", Sprintf(format))), fn |-> "nil"]

\* current returns the pending lexeme and moves start to pos.
current(lx) ==
    [l |-> [lx EXCEPT !.start = lx.pos],
     str |-> SubSeq(lx.input, lx.start + 1, lx.pos)]

emit(lx, t) ==
    LET c == current(lx) IN Consume(c.l, Token(t, c.str))

next(lx) ==
    IF lx.pos >= Len(lx.input)
    THEN [l |-> [lx EXCEPT !.width = 0], rune |-> Rune0]
    ELSE LET d == DecodeRuneInString(lx.input, lx.pos)
         IN [l |-> [lx EXCEPT !.width = d.width, !.pos = lx.pos + d.width],
             rune |-> d.rune]

ignore(lx) == [lx EXCEPT !.start = lx.pos]

backup(lx) == [lx EXCEPT !.pos = lx.pos - lx.width]

peek(lx) ==
    LET n == next(lx) IN [l |-> backup(n.l), rune |-> n.rune]

isWhiteSpace(rune) == IsSpace(rune) \/ rune = Rune0

RECURSIVE scanTillWhiteSpace(_)
scanTillWhiteSpace(lx) ==
    LET n == next(lx)
    IN IF isWhiteSpace(n.rune) THEN n.l ELSE scanTillWhiteSpace(n.l)

\* The loop of match over the runes of str, from its i-th.
RECURSIVE matchLoop(_, _, _, _, _)
matchLoop(lx, str, i, skip, done) ==
    IF i > Len(str) THEN [l |-> lx, done |-> done]
    ELSE IF skip > 0 THEN matchLoop(lx, str, i + 1, skip - 1, done)
    ELSE LET n == next(lx)
         IN matchLoop(n.l, str, i + 1, skip, done /\ str[i] = n.rune)

match(lx, str, skip) ==
    LET m == matchLoop(lx, str, 1, skip, TRUE)
        pk == peek(m.l)
    IN IF ~isWhiteSpace(pk.rune)
       THEN [l |-> scanTillWhiteSpace(pk.l), done |-> FALSE]
       ELSE [l |-> pk.l, done |-> m.done]

lexMatch(lx, typ, command, skip, fn) ==
    LET m == match(lx, command, skip)
    IN IF m.done
       THEN [l |-> emit(m.l, typ), fn |-> fn]
       ELSE LET c == current(m.l)
            IN errorToken(c.l, <<"Unexpected token:">> \o c.str)

lexCommandST(lx) ==
    LET n1 == next(lx)
    IN IF n1.rune = "a"
       THEN LET n2 == next(n1.l)
            IN IF n2.rune = "r"
               THEN lexMatch(n2.l, "tokenTypeCmdStart", <<"s", "t", "a", "r", "t">>, 4, "nil")
               ELSE lexMatch(n2.l, "tokenTypeCmdStatus", <<"s", "t", "a", "t", "u", "s">>, 4, "nil")
       ELSE lexMatch(n1.l, "tokenTypeCmdStop", <<"s", "t", "o", "p">>, 3, "nil")

lexCommandS(lx) ==
    LET n == next(lx)
    IN CASE n.rune = "e" ->
              lexMatch(n.l, "tokenTypeSqlSelect", <<"s", "e", "l", "e", "c", "t">>, 2, "nil")
         [] n.rune = "u" ->
              lexMatch(n.l, "tokenTypeSqlSubscribe",
                       <<"s", "u", "b", "s", "c", "r", "i", "b", "e">>, 2, "nil")
         [] n.rune = "t" -> lexCommandST(n.l)
         [] OTHER ->
              LET c == current(n.l)
              IN errorToken(c.l, <<"Invalid command:">> \o c.str)

RECURSIVE skipSpaces(_)
skipSpaces(lx) ==
    LET n == next(lx) IN IF IsSpace(n.rune) THEN skipSpaces(n.l) ELSE n.l

lexSkipWhiteSpaces(lx) == ignore(backup(skipSpaces(lx)))

RECURSIVE scanLettersAndDigits(_)
scanLettersAndDigits(lx) ==
    LET n == next(lx)
    IN IF IsLetter(n.rune) \/ IsDigit(n.rune) THEN scanLettersAndDigits(n.l) ELSE n.l

lexSqlIdentifier(lx, typ, fn) ==
    LET n == next(lexSkipWhiteSpaces(lx))
    IN IF ~IsLetter(n.rune)
       THEN LET c == current(n.l)
            IN errorToken(c.l, <<"identifier must begin with a letter ">> \o c.str)
       ELSE [l |-> emit(backup(scanLettersAndDigits(n.l)), typ), fn |-> fn]

\* lexSqlLeftParenthesis that, without a '(', takes the table name back and
\* has it scanned again
lexSqlLeftParenthesisRescan(lx, fn) ==
    LET n == next(lexSkipWhiteSpaces(lx))
        table == lx.tokens[Len(lx.tokens)].val
    IN IF n.rune # "("
       THEN [l |-> [lx EXCEPT !.tokens = SubSeq(@, 1, Len(@) - 1),
                              !.start = lx.start - Len(table),
                              !.pos = lx.start - Len(table)],
             fn |-> "lexSqlInsertIntoTable"]
       ELSE [l |-> emit(n.l, "tokenTypeSqlLeftParenthesis"), fn |-> fn]

lexSqlLeftParenthesis(lx, fn) ==
    LET n == next(lexSkipWhiteSpaces(lx))
    IN IF n.rune # "("
       THEN errorToken(n.l, <<"expected ( ">>)
       ELSE [l |-> emit(n.l, "tokenTypeSqlLeftParenthesis"), fn |-> fn]

\* lexSqlInsertInto that goes on to the left parenthesis, past the table name
lexSqlInsertIntoSkipsTable(lx) ==
    lexMatch(lexSkipWhiteSpaces(lx), "tokenTypeSqlInto", <<"i", "n", "t", "o">>, 0,
             "lexSqlInsertIntoTableLeftParenthesis")

lexSqlInsertInto(lx) ==
    lexMatch(lexSkipWhiteSpaces(lx), "tokenTypeSqlInto", <<"i", "n", "t", "o">>, 0,
             "lexSqlInsertIntoTable")

lexSqlInsertIntoTable(lx) ==
    lexSqlIdentifier(lx, "tokenTypeSqlTable", "lexSqlInsertIntoTableLeftParenthesis")

lexSqlInsertIntoTableLeftParenthesis(lx) == lexSqlLeftParenthesis(lx, "nil")

lexCommand(lx) ==
    LET n == next(lexSkipWhiteSpaces(lx))
    IN CASE n.rune = "u" ->
              LET n2 == next(n.l)
              IN IF n2.rune = "p"
                 THEN lexMatch(n2.l, "tokenTypeSqlUpdate",
                               <<"u", "p", "d", "a", "t", "e">>, 2, "nil")
                 ELSE lexMatch(n2.l, "tokenTypeSqlUnsubscribe",
                               <<"u", "n", "s", "u", "b", "s", "c", "r", "i", "b", "e">>,
                               2, "nil")
         [] n.rune = "s" -> lexCommandS(n.l)
         [] n.rune = "i" ->
              lexMatch(n.l, "tokenTypeSqlInsert", <<"i", "n", "s", "e", "r", "t">>, 1,
                       "lexSqlInsertInto")
         [] n.rune = "d" ->
              lexMatch(n.l, "tokenTypeSqlDelete", <<"d", "e", "l", "e", "t", "e">>, 1, "nil")
         [] n.rune = "h" ->
              lexMatch(n.l, "tokenTypeCmdHelp", <<"h", "e", "l", "p">>, 1, "nil")
         [] OTHER ->
              LET c == current(n.l)
              IN errorToken(c.l, <<"Invalid command:">> \o c.str)

\* lex(input, tokens): the lexer as constructed, run about to start.
lex(input) ==
    [input |-> input, start |-> 0, pos |-> 0, width |-> 0, tokens |-> <<>>]

\* One iteration of run's loop: state = state(l).
RunStep(name, fnResult) ==
    /\ state = name
    /\ l' = fnResult.l
    /\ state' = fnResult.fn

LexCommand == RunStep("lexCommand", lexCommand(l))
LexSqlInsertInto == RunStep("lexSqlInsertInto", lexSqlInsertInto(l))
LexSqlInsertIntoTable == RunStep("lexSqlInsertIntoTable", lexSqlInsertIntoTable(l))
LexSqlInsertIntoTableLeftParenthesis ==
    RunStep("lexSqlInsertIntoTableLeftParenthesis", lexSqlInsertIntoTableLeftParenthesis(l))

\* run that emits the EOF token only after a scan without error
RunEmitEOFUnlessError ==
    /\ state = "nil"
    /\ l' = IF \E k \in 1..Len(l.tokens) : l.tokens[k].typ = "tokenTypeError"
            THEN l
            ELSE emit(l, "tokenTypeEOF")
    /\ state' = "returned"

\* The state is nil: run leaves its loop, emits the EOF token and returns.
RunEmitEOF ==
    /\ state = "nil"
    /\ l' = emit(l, "tokenTypeEOF")
    /\ state' = "returned"

(***************************************************************************)
(* server/parser_mysql.go                                                  *)
(*                                                                         *)
(* The parser pulls the tokens that follow the mysql keyword.  Its token   *)
(* source, parseError and parseEOF are not in parser_mysql.go; they are    *)
(* modelled from the specification's description of the parser.            *)
(***************************************************************************)
\* this.tokens.Produce(): the next token of the stream.  A stream the lexer
\* delivers ends with the EOF token; pulling beyond it is a fault.
Produce(ps) ==
    IF ps.tokens = <<>>
    THEN [p |-> [ps EXCEPT !.fault = TRUE], tok |-> Token("none", <<>>)]
    ELSE [p |-> [ps EXCEPT !.tokens = Tail(@), !.produced = Append(@, Head(ps.tokens))],
          tok |-> Head(ps.tokens)]

\* this.parseError(message): the error as a request value.
parseError(ps, message) == [kind |-> "errorRequest", err |-> message]

\* this.parseEOF(req): req when the next token is the end of input, else an
\* error.
parseEOF(ps, req) ==
    LET n == Produce(ps)
    IN [p |-> n.p,
        req |-> IF n.tok.typ = "tokenTypeEOF"
                THEN req
                ELSE parseError(n.p, <<"expected EOF, but got: ", n.tok.typ>>)]

\* new(mysqlConnectRequest) and the other requests
mysqlConnectRequest == [kind |-> "mysqlConnectRequest", connectionAddress |-> <<>>]
mysqlDisconnectRequest == [kind |-> "mysqlDisconnectRequest"]
mysqlSubscribeRequest == [kind |-> "mysqlSubscribeRequest"]
mysqlUnsubscribeRequest == [kind |-> "mysqlUnsubscribeRequest"]

NoError == [kind |-> "nil"]

\* parseConnectionAddress that checks the token and forgets to store its text
parseConnectionAddressNoStore(ps, req) ==
    LET n == Produce(ps)
    IN IF n.tok.typ # "tokenTypeSqlValue"
       THEN [p |-> n.p, req |-> req,
             errReq |-> parseError(n.p, <<"expected connection address, but got: ",
                                          n.tok.typ>>)]
       ELSE [p |-> n.p, req |-> req, errReq |-> NoError]

\* parseConnectionAddress(&req.connectionAddress): the error request, or nil
\* with the address stored in req.
parseConnectionAddress(ps, req) ==
    LET n == Produce(ps)
    IN IF n.tok.typ # "tokenTypeSqlValue"
       THEN [p |-> n.p, req |-> req,
             errReq |-> parseError(n.p, <<"expected connection address, but got: ",
                                          n.tok.typ>>)]
       ELSE [p |-> n.p, req |-> [req EXCEPT !.connectionAddress = n.tok.val],
             errReq |-> NoError]

\* parseMysqlConnect that goes on to parseEOF whatever parseConnectionAddress
\* returned
parseMysqlConnectNoCheck(ps) ==
    LET a == parseConnectionAddress(ps, mysqlConnectRequest)
    IN parseEOF(a.p, a.req)

parseMysqlConnect(ps) ==
    LET a == parseConnectionAddress(ps, mysqlConnectRequest)
    IN IF a.errReq # NoError
       THEN [p |-> a.p, req |-> a.errReq]
       ELSE parseEOF(a.p, a.req)

parseMysqlDisconnect(ps) == parseEOF(ps, mysqlDisconnectRequest)

parseMysqlSubscribe(ps) == parseEOF(ps, mysqlSubscribeRequest)

\* parseMysqlUnsubscribe that returns its request without parseEOF
parseMysqlUnsubscribeNoEOF(ps) == [p |-> ps, req |-> mysqlUnsubscribeRequest]

\* mysql unsubscribe
parseMysqlUnsubscribe(ps) == parseEOF(ps, mysqlUnsubscribeRequest)

\* What the caller of parseSqlMysql gets: the request, or the fault.
Returned(r) == IF r.p.fault THEN [kind |-> "panic"] ELSE r.req

\* parseSqlMysql whose switch sends every other token to the connect production
ParseSqlMysqlDefaultConnect ==
    /\ pc = "parseSqlMysql"
    /\ LET n == Produce(p)
       IN /\ p' = n.p
          /\ UNCHANGED result
          /\ CASE n.tok.typ = "tokenTypeSqlDisconnect" -> pc' = "parseMysqlDisconnect"
               [] n.tok.typ = "tokenTypeSqlSubscribe" -> pc' = "parseMysqlSubscribe"
               [] n.tok.typ = "tokenTypeSqlUnsubscribe" -> pc' = "parseMysqlUnsubscribe"
               [] OTHER -> pc' = "parseMysqlConnect"

\* parseSqlMysql up to its switch: the production the next token selects.
ParseSqlMysql ==
    /\ pc = "parseSqlMysql"
    /\ LET n == Produce(p)
       IN /\ p' = n.p
          /\ CASE n.tok.typ = "tokenTypeSqlConnect" ->
                    pc' = "parseMysqlConnect" /\ UNCHANGED result
               [] n.tok.typ = "tokenTypeSqlDisconnect" ->
                    pc' = "parseMysqlDisconnect" /\ UNCHANGED result
               [] n.tok.typ = "tokenTypeSqlSubscribe" ->
                    pc' = "parseMysqlSubscribe" /\ UNCHANGED result
               [] n.tok.typ = "tokenTypeSqlUnsubscribe" ->
                    pc' = "parseMysqlUnsubscribe" /\ UNCHANGED result
               [] OTHER ->
                    /\ pc' = "returned"
                    /\ result' = Returned([p |-> n.p,
                                           req |-> parseError(n.p, <<"invalid mysql request">>)])

\* A production runs and parseSqlMysql returns what it returns.
Production(name, r) ==
    /\ pc = name
    /\ p' = r.p
    /\ result' = Returned(r)
    /\ pc' = "returned"

ParseMysqlConnect == Production("parseMysqlConnect", parseMysqlConnect(p))
ParseMysqlDisconnect == Production("parseMysqlDisconnect", parseMysqlDisconnect(p))
ParseMysqlSubscribe == Production("parseMysqlSubscribe", parseMysqlSubscribe(p))
ParseMysqlUnsubscribe == Production("parseMysqlUnsubscribe", parseMysqlUnsubscribe(p))

\* The tokens that may follow the mysql keyword, before the stream ends.
StreamTokens ==
    {Token("tokenTypeSqlConnect", <<"connect">>),
     Token("tokenTypeSqlDisconnect", <<"disconnect">>),
     Token("tokenTypeSqlSubscribe", <<"subscribe">>),
     Token("tokenTypeSqlUnsubscribe", <<"unsubscribe">>),
     Token("tokenTypeSqlValue", <<"1.2.3.4:3306">>),
     Token("tokenTypeSqlValue", <<"localhost:3306">>),
     Token("tokenTypeSqlId", <<"t1">>)}

\* The streams a scan can deliver: tokens, an error token if the scan
\* failed, and the EOF token last.
Streams ==
    {body \o end : body \in Strs(StreamTokens, MaxStream),
                   end \in {<<Token("tokenTypeEOF", <<>>)>>,
                            <<Token("tokenTypeError", <<"Unexpected token:">>),
                              Token("tokenTypeEOF", <<>>)>>}}

ParseInit ==
    /\ \E s \in Streams : p = [tokens |-> s, produced |-> <<>>, fault |-> FALSE]
    /\ pc = "parseSqlMysql"
    /\ result = [kind |-> "none"]

(***************************************************************************)
(* client/client.go                                                        *)
(*                                                                         *)
(* The client holds a connection rw, of which only Valid() matters here,   *)
(* the id of the last request sent, the error string of the last           *)
(* operation and the last response.  What the network does is an input of  *)
(* each call: the error of WriteHeaderAndMessage ("nil" for none) and what *)
(* ReadMessage returns.  A *NetworkHeader is a sequence: empty for nil,    *)
(* one header otherwise.                                                   *)
(***************************************************************************)
\* var c client: the zero value
NewClient ==
    [rw |-> [valid |-> FALSE], requestId |-> 0, errorString |-> "", rawjson |-> ""]

resetError(c) == [c EXCEPT !.errorString = ""]

reset(c) == [resetError(c) EXCEPT !.rawjson = ""]

setError(c, err) == [c EXCEPT !.errorString = err]

\* requestId is a uint32; the calls followed here stay far below its wrap.
write(c, werr) ==
    LET c1 == resetError([c EXCEPT !.requestId = @ + 1])
    IN IF c1.rw.valid
       THEN IF werr = "nil"
            THEN [c |-> c1, ok |-> TRUE]
            ELSE [c |-> setError(c1, werr), ok |-> FALSE]
       ELSE [c |-> [c1 EXCEPT !.errorString = "Not connected"], ok |-> FALSE]

read(c, msg) ==
    LET c1 == reset(c)
    IN IF c1.rw.valid
       THEN IF msg.err = "nil"
            THEN [c |-> c1, header |-> msg.header, bytes |-> msg.bytes, ok |-> TRUE]
            ELSE [c |-> setError(c1, msg.err), header |-> <<>>, bytes |-> "", ok |-> FALSE]
       ELSE [c |-> [c1 EXCEPT !.errorString = "Not connected"],
             header |-> <<>>, bytes |-> "", ok |-> FALSE]

\* Execute(command): ret is "true" or "false", or "panic" when header is nil
\* where header.RequestId is read.
Execute(c, werr, msg) ==
    LET w == write(c, werr)
    IN IF w.ok
       THEN LET r == read(w.c, msg)
            IN IF r.header = <<>>
               THEN [c |-> r.c, ret |-> "panic"]
               ELSE LET differs == r.header[1].RequestId # r.c.requestId
                        ok == r.ok /\ ~differs
                        c2 == IF differs
                              THEN [r.c EXCEPT !.errorString = "invalid requestId"]
                              ELSE r.c
                    IN [c |-> IF ok THEN [c2 EXCEPT !.rawjson = r.bytes] ELSE c2,
                        ret |-> IF ok THEN "true" ELSE "false"]
       ELSE [c |-> w.c, ret |-> "false"]

Disconnect(c, werr) ==
    [reset(write(c, werr).c) EXCEPT !.rw.valid = FALSE]

\* Connect(address): derr is the error of net.Dial, "nil" for none.
Connect(c, werr, derr) ==
    LET d == Disconnect(c, werr)
    IN IF derr # "nil"
       THEN [c |-> [d EXCEPT !.errorString = derr], ret |-> "false"]
       ELSE [c |-> [d EXCEPT !.rw.valid = TRUE], ret |-> "true"]

Ok(c) == c.errorString = ""

Failed(c) == ~Ok(c)

\* What the network may do to a call.
WriteErrors == {"nil", "write error"}
DialErrors == {"nil", "dial error"}
Messages ==
    {[header |-> <<[RequestId |-> n]>>, bytes |-> b, err |-> "nil"] :
        n \in 0..MaxRequests, b \in {"{}", "[]"}}
    \cup {[header |-> <<>>, bytes |-> "", err |-> "read error"]}

NoMessage == [header |-> <<>>, bytes |-> "", err |-> "nil"]
NoExec == [op |-> "none", werr |-> "nil", msg |-> NoMessage, sent |-> 0, ret |-> "none"]

ClientInit == client = NewClient /\ exec = NoExec

\* A panic ends the program; the request counter is followed up to MaxRequests.
Running == exec.ret # "panic" /\ client.requestId < MaxRequests

CallConnect ==
    /\ Running
    /\ \E werr \in WriteErrors, derr \in DialErrors :
          LET res == Connect(client, werr, derr)
          IN /\ client' = res.c
             /\ exec' = [op |-> "Connect", werr |-> werr, msg |-> NoMessage,
                         sent |-> res.c.requestId, ret |-> res.ret]

CallDisconnect ==
    /\ Running
    /\ \E werr \in WriteErrors :
          /\ client' = Disconnect(client, werr)
          /\ exec' = [op |-> "Disconnect", werr |-> werr, msg |-> NoMessage,
                      sent |-> client'.requestId, ret |-> "none"]

CallExecute ==
    /\ Running
    /\ \E werr \in WriteErrors, msg \in Messages :
          LET res == Execute(client, werr, msg)
          IN /\ client' = res.c
             /\ exec' = [op |-> "Execute", werr |-> werr, msg |-> msg,
                         sent |-> res.c.requestId, ret |-> res.ret]

(***************************************************************************)
(* The inputs scanned                                                      *)
(***************************************************************************)
Keywords ==
    {<<"h", "e", "l", "p">>,
     <<"s", "t", "a", "t", "u", "s">>,
     <<"s", "t", "o", "p">>,
     <<"s", "t", "a", "r", "t">>,
     <<"i", "n", "s", "e", "r", "t">>,
     <<"u", "p", "d", "a", "t", "e">>,
     <<"d", "e", "l", "e", "t", "e">>,
     <<"s", "e", "l", "e", "c", "t">>,
     <<"s", "u", "b", "s", "c", "r", "i", "b", "e">>,
     <<"u", "n", "s", "u", "b", "s", "c", "r", "i", "b", "e">>}

Into == <<"i", "n", "t", "o">>

\* The token type lexCommand emits for a keyword.
KeywordType(kw) ==
    CASE kw = <<"h", "e", "l", "p">> -> "tokenTypeCmdHelp"
      [] kw = <<"s", "t", "a", "t", "u", "s">> -> "tokenTypeCmdStatus"
      [] kw = <<"s", "t", "o", "p">> -> "tokenTypeCmdStop"
      [] kw = <<"s", "t", "a", "r", "t">> -> "tokenTypeCmdStart"
      [] kw = <<"i", "n", "s", "e", "r", "t">> -> "tokenTypeSqlInsert"
      [] kw = <<"i", "n", "t", "o">> -> "tokenTypeSqlInto"
      [] kw = <<"u", "p", "d", "a", "t", "e">> -> "tokenTypeSqlUpdate"
      [] kw = <<"d", "e", "l", "e", "t", "e">> -> "tokenTypeSqlDelete"
      [] kw = <<"s", "e", "l", "e", "c", "t">> -> "tokenTypeSqlSelect"
      [] kw = <<"s", "u", "b", "s", "c", "r", "i", "b", "e">> -> "tokenTypeSqlSubscribe"
      [] kw = <<"u", "n", "s", "u", "b", "s", "c", "r", "i", "b", "e">> ->
             "tokenTypeSqlUnsubscribe"

\* A keyword, a keyword with one character replaced, or the first characters
\* of a keyword.
KeywordLike ==
    Keywords
    \cup UNION {{[kw EXCEPT ![k] = c] : k \in 1..Len(kw), c \in {"x", "p"}} :
                    kw \in Keywords}
    \cup UNION {{SubSeq(kw, 1, k) : k \in 1..Len(kw)} : kw \in Keywords}

\* What follows the first word.
Tails ==
    {<<>>, <<" ">>, <<"\n">>, <<"x">>, <<"1">>, <<"(">>, <<"NUL">>, <<"NUL", "x">>,
     <<"C2", "A0">>, <<"C3", "A9">>, <<"C2", "A9">>, <<"C3">>, <<" ", "x">>,
     <<" ", "*", " ", "f", "r", "o", "m", " ", "t", "1">>}

Leads == {<<>>, <<" ">>, <<"C2", "A0", "\n">>}

KeywordInputs == {ld \o w \o tl : ld \in Leads, w \in KeywordLike, tl \in Tails}

\* Words that begin with "st".
StInputs ==
    {<<"s", "t">> \o w \o tl :
        w \in Strs({"a", "r", "t", "u", "s", "o", "p", "x"}, MaxStTail),
        tl \in {<<>>, <<" ">>}}

\* insert statements, each element present, absent or malformed.
InsertInputs ==
    {<<"i", "n", "s", "e", "r", "t">> \o s1 \o into \o s2 \o tbl \o s3 \o par :
        s1 \in {<<" ">>, <<"NUL">>},
        into \in {Into, <<"i", "n", "t", "x">>, <<"i", "n">>, <<>>},
        s2 \in {<<>>, <<" ">>, <<" ", " ">>},
        tbl \in {<<"t", "1">>, <<"1", "t">>, <<"t">>, <<"C3", "A9", "1">>, <<>>},
        s3 \in {<<>>, <<" ">>},
        par \in {<<"(">>, <<"x">>, <<>>, <<"(", "x">>, <<"C3", "A0">>}}

ShortInputs ==
    Strs({"s", "t", "u", "p", "i", "h", "d", " ", "NUL", "C2", "A0"}, MaxLen)

Inputs == KeywordInputs \cup StInputs \cup InsertInputs \cup ShortInputs

\* The inputs whose scans are followed to their end: the insert statements,
\* the keywords with what may follow them, and short strings of keyword
\* letters, white space, zero bytes and UTF-8 bytes.
TerminationInputs ==
    InsertInputs
    \cup {ld \o kw \o tl : ld \in Leads, kw \in Keywords, tl \in Tails}
    \cup Strs({"s", "t", "x", " ", "NUL", "C2", "A0"}, MaxLen)

\* lex(input, tokens) is called: the lexer is constructed and run starts.
Lex ==
    /\ state = "idle"
    /\ \E input \in TerminationInputs : l' = lex(input)
    /\ state' = "lexCommand"

LexInit ==
    /\ \E input \in Inputs : l = lex(input)
    /\ state = "lexCommand"

(***************************************************************************)
(* Claims about the tag list                                               *)
(***************************************************************************)
\* The idx values met by walking from head are exactly the live rows, each
\* once, and the walk ends.
ListHoldsLive ==
    /\ Acyclic(heap, head)
    /\ Range(WalkIdx(heap, head)) = live
    /\ Len(WalkIdx(heap, head)) = Cardinality(live)

C2_HeadStable ==
    [][(call'.op = "removeTag" /\ head # Nil /\ call'.t = head
            /\ heap[head].prev = Nil)
        => IF heap[head].next # Nil
           THEN /\ ~call'.ret
                /\ head' = head
                /\ heap'[head].prev = Nil
                /\ heap'[head].idx = heap[heap[head].next].idx
                /\ WalkIdx(heap', head') = Tail(WalkIdx(heap, head))
           ELSE call'.ret /\ head' = Nil]_vars

C2_Witness ==
    /\ ownerTakes = "first"
    /\ call.op = "removeTag" /\ call.t = head /\ ~call.ret
    /\ heap[head].prev = Nil /\ heap[head].next # Nil
    /\ Cardinality(live) = 2 /\ Range(WalkIdx(heap, head)) = live

\* C3 as stated: when rows are added and then each removed once, every row
\* passing the tag its addTag returned, removeTag returns emptied on the
\* call that removes the last remaining tag and on no earlier call.
C3_EmptiedOnLastRemoval ==
    (locate = "handle" /\ phase = "removing" /\ call.op = "removeTag")
        => (call.ret <=> live = {})

\* C13: addTag(head, idx) with a head that is not nil splices the new tag
\* directly after head: head.next is the new tag, the new tag's prev is head,
\* its next is head's former next, and that former next, if any, has the new
\* tag as prev; with a nil head both links of the new tag are nil.  Either
\* way the tag returned is the new tag, it carries idx, and the idx of every
\* other tag is as before.
C13_AddTagSplices ==
    [][call'.op = "addTag" =>
        LET t == call'.t
            formerNext == IF head # Nil THEN heap[head].next ELSE Nil
        IN /\ t = ntags + 1
           /\ handle'[call'.row] = t
           /\ heap'[t].idx = call'.row
           /\ IF head # Nil
              THEN /\ heap'[head].next = t
                   /\ heap'[t].prev = head
                   /\ heap'[t].next = formerNext
                   /\ formerNext # Nil => heap'[formerNext].prev = t
              ELSE heap'[t].prev = Nil /\ heap'[t].next = Nil
           /\ \A n \in Addrs \ {t} : heap'[n].idx = heap[n].idx]_vars

C13_Witness ==
    /\ call.op = "addTag"
    /\ head # Nil /\ head # call.t
    /\ heap[head].next = call.t
    /\ heap[call.t].prev = head
    /\ heap[call.t].next # Nil
    /\ heap[heap[call.t].next].prev = call.t

\* C14 slide removal: removeTag(t) on a tag without predecessor and with a
\* successor s copies s.idx and s.next into t, makes t the prev of s's former
\* next, if any, clears the prev and next of s and returns not-emptied; the
\* idx values walked from t afterwards are those walked before without the
\* first.
C14_SlideRemoval ==
    [][(call'.op = "removeTag" /\ heap[call'.t].prev = Nil /\ heap[call'.t].next # Nil) =>
        LET t == call'.t
            s == heap[t].next
            formerNext == heap[s].next
        IN /\ ~call'.ret
           /\ heap'[t].idx = heap[s].idx
           /\ heap'[t].next = formerNext
           /\ heap'[t].prev = Nil
           /\ formerNext # Nil => heap'[formerNext].prev = t
           /\ heap'[s].prev = Nil /\ heap'[s].next = Nil
           /\ WalkIdx(heap', t) = Tail(WalkIdx(heap, t))]_vars

C14_Witness ==
    /\ locate = "handle"
    /\ call.op = "removeTag" /\ ~call.ret
    /\ heap[call.t].prev = Nil /\ heap[call.t].next # Nil
    /\ heap[call.t].idx # call.row
    /\ Cardinality(live) = 2

\* Every link of every tag is answered by the tag it leads to.
LinkConsistent ==
    \A n \in 1..ntags :
        /\ heap[n].next # Nil => heap[heap[n].next].prev = n
        /\ heap[n].prev # Nil => heap[heap[n].prev].next = n

\* The first tag of the list t is linked into.
RECURSIVE First(_, _, _)
First(h, t, k) == IF h[t].prev = Nil \/ k = 0 THEN t ELSE First(h, h[t].prev, k - 1)

\* C15 link consistency: after any sequence of addTag and removeTag calls,
\* for every tag n, n.next not nil implies n.next.prev is n and n.prev not
\* nil implies n.prev.next is n; and removeTag on a tag that has a
\* predecessor returns not-emptied and leaves the list, walked from its first
\* tag, holding the other tags with their idx in the same order, the removed
\* tag's links being nil.
C15_LinkConsistency ==
    /\ []LinkConsistent
    /\ [][(call'.op = "removeTag" /\ heap[call'.t].prev # Nil) =>
            LET t == call'.t
                first == First(heap, t, MaxTags)
                others == SelectSeq(Walk(heap, first, MaxTags), LAMBDA n : n # t)
            IN /\ ~call'.ret
               /\ t \in Range(Walk(heap, first, MaxTags))
               /\ Walk(heap', first, MaxTags) = others
               /\ WalkIdx(heap', first) = [k \in 1..Len(others) |-> heap[others[k]].idx]
               /\ heap'[t].prev = Nil /\ heap'[t].next = Nil]_vars

C15_Witness ==
    /\ call.op = "removeTag" /\ ~call.ret
    /\ call.t # head /\ head # Nil
    /\ heap[call.t].next = Nil /\ heap[call.t].prev = Nil
    /\ Len(Walk(heap, head, MaxTags)) = 2
    /\ heap[heap[head].next].prev = head
    /\ ntags = 3

\* C16 as stated: when every row keeps the tag its addTag returned, then
\* after removeTag is called with a row's tag every other row not removed
\* still has its tag linked into the list, reachable from the first tag,
\* and that tag still carries the row's idx.
C16_HandlesStayValid ==
    (locate = "handle" /\ ownerTakes = "first" /\ call.op = "removeTag") =>
        \A r \in live :
            /\ handle[r] \in Range(Walk(heap, head, MaxTags))
            /\ heap[handle[r]].idx = r

(***************************************************************************)
(* Claims about the lexer                                                  *)
(***************************************************************************)
Types(toks) == [k \in 1..Len(toks) |-> toks[k].typ]

\* The number of tokens of type typ among toks.
Count(toks, typ) == Cardinality({k \in 1..Len(toks) : toks[k].typ = typ})

Delivered(typ) == \E k \in 1..Len(l.tokens) : l.tokens[k].typ = typ

\* The offset at which the word begins that follows the white space at a.
SkipFrom(in, a) == lexSkipWhiteSpaces([lex(in) EXCEPT !.start = a, !.pos = a]).pos

\* The bytes of kw stand at offset a of in and a character that is not
\* Unicode white space follows them directly.
FollowedDirectly(in, a, kw) ==
    /\ a + Len(kw) < Len(in)
    /\ SubSeq(in, a + 1, a + Len(kw)) = kw
    /\ ~IsSpace(DecodeRuneInString(in, a + Len(kw)).rune)

\* C4: the scan of "select * from t1" delivers the select keyword, the
\* star, the from keyword, the identifier "t1" and the end of input, in
\* that order and nothing else.
C4_SelectStarFrom ==
    (state = "returned"
        /\ l.input = <<"s", "e", "l", "e", "c", "t", " ", "*", " ",
                       "f", "r", "o", "m", " ", "t", "1">>)
    => /\ Types(l.tokens) = <<"tokenTypeSqlSelect", "tokenTypeSqlStar",
                              "tokenTypeSqlFrom", "tokenTypeSqlId", "tokenTypeEOF">>
       /\ l.tokens[4].val = <<"t", "1">>

\* C5: when the characters of a keyword (the command word, or into after
\* insert) are followed directly by a character that is neither Unicode
\* white space nor the end of the input, the scan delivers an error token
\* and does not deliver that keyword's token.
C5_KeywordBoundary ==
    state = "returned" =>
        LET a == SkipFrom(l.input, 0)
            b == SkipFrom(l.input, a + 6)
        IN /\ \A kw \in Keywords :
                FollowedDirectly(l.input, a, kw)
                    => Delivered("tokenTypeError") /\ ~Delivered(KeywordType(kw))
           /\ (/\ a + 6 <= Len(l.input)
               /\ SubSeq(l.input, a + 1, a + 6) = <<"i", "n", "s", "e", "r", "t">>
               /\ b > a + 6
               /\ FollowedDirectly(l.input, b, Into))
                    => Delivered("tokenTypeError") /\ ~Delivered("tokenTypeSqlInto")

\* The input without the blank that may end it.
Word(in) == IF in # <<>> /\ in[Len(in)] = " " THEN SubSeq(in, 1, Len(in) - 1) ELSE in

\* C6: "start", "status" and "stop" lex to their command tokens, and every
\* other word that begins with "st" yields an error token and none of the
\* command tokens.
C6_StPrefix ==
    (state = "returned" /\ l.input \in StInputs) =>
        CASE Word(l.input) = <<"s", "t", "a", "r", "t">> ->
                Types(l.tokens) = <<"tokenTypeCmdStart", "tokenTypeEOF">>
          [] Word(l.input) = <<"s", "t", "a", "t", "u", "s">> ->
                Types(l.tokens) = <<"tokenTypeCmdStatus", "tokenTypeEOF">>
          [] Word(l.input) = <<"s", "t", "o", "p">> ->
                Types(l.tokens) = <<"tokenTypeCmdStop", "tokenTypeEOF">>
          [] OTHER ->
                /\ Delivered("tokenTypeError")
                /\ ~Delivered("tokenTypeCmdStart")
                /\ ~Delivered("tokenTypeCmdStatus")
                /\ ~Delivered("tokenTypeCmdStop")

Terminal(t) == t.typ \in {"tokenTypeError", "tokenTypeEOF"}

\* C7 as stated: the stream a scan delivers ends with exactly one terminal
\* token, an error token or an end-of-input token: never both and never
\* neither.
C7_OneTerminalToken ==
    state = "returned" =>
        /\ l.tokens # <<>>
        /\ Terminal(l.tokens[Len(l.tokens)])
        /\ Cardinality({k \in 1..Len(l.tokens) : Terminal(l.tokens[k])}) = 1

\* C7 amended: the stream a scan delivers ends with exactly one
\* end-of-input token; a failed scan has delivered one error token as well,
\* directly before it, so a scan may deliver both, and no scan delivers
\* neither.
C7_EndsWithEOF ==
    state = "returned" =>
        /\ l.tokens # <<>>
        /\ Count(l.tokens, "tokenTypeEOF") = 1
        /\ l.tokens[Len(l.tokens)].typ = "tokenTypeEOF"
        /\ Count(l.tokens, "tokenTypeError") <= 1
        /\ \A k \in 1..Len(l.tokens) :
              l.tokens[k].typ = "tokenTypeError" => k = Len(l.tokens) - 1

C7_Witness ==
    /\ state = "returned"
    /\ Len(l.tokens) = 3
    /\ Types(l.tokens) = <<"tokenTypeSqlInsert", "tokenTypeError", "tokenTypeEOF">>

\* C8: at every point of a scan at most one end-of-input token has been
\* delivered, it is delivered when run returns and is the last token; at
\* most one error token is delivered, once it is delivered the state is nil
\* (the state machine has halted), and the only token that follows it is the
\* end-of-input token.
C8_ErrorThenEOF ==
    /\ Count(l.tokens, "tokenTypeEOF") = (IF state = "returned" THEN 1 ELSE 0)
    /\ state = "returned" => l.tokens[Len(l.tokens)].typ = "tokenTypeEOF"
    /\ Count(l.tokens, "tokenTypeError") <= 1
    /\ \A k \in 1..Len(l.tokens) :
          l.tokens[k].typ = "tokenTypeError" =>
              /\ state \in {"nil", "returned"}
              /\ \A j \in (k + 1)..Len(l.tokens) :
                    j = k + 1 /\ l.tokens[j].typ = "tokenTypeEOF"

C8_Witness ==
    /\ state = "returned"
    /\ Types(l.tokens) = <<"tokenTypeSqlInsert", "tokenTypeSqlInto", "tokenTypeSqlTable",
                           "tokenTypeError", "tokenTypeEOF">>

\* C17 as stated: in every state of a scan start <= pos <= len(input), and
\* directly after a token, an error token included, is delivered start = pos.
\* Every state function delivers its token as its last act, so every state
\* that follows a step is one directly after a delivery.
C17_CursorInvariant ==
    /\ l.start <= l.pos
    /\ l.pos <= Len(l.input)
    /\ l.tokens # <<>> => l.start = l.pos

\* C18 as stated: every command or keyword token delivered has the keyword's
\* text as its value.
C18_KeywordTokenText ==
    \A k \in 1..Len(l.tokens) :
        \A kw \in Keywords \cup {Into} :
            l.tokens[k].typ = KeywordType(kw) => l.tokens[k].val = kw

\* The rune at offset a of in, "end" past the last byte.
RuneAt(in, a) == IF a >= Len(in) THEN "end" ELSE DecodeRuneInString(in, a).rune

\* The word kw stands at offset a of in: its bytes, then white space, a zero
\* byte or the end of the input.
KeywordAt(in, a, kw) ==
    /\ a + Len(kw) <= Len(in)
    /\ SubSeq(in, a + 1, a + Len(kw)) = kw
    /\ LET r == RuneAt(in, a + Len(kw)) IN r = "end" \/ IsSpace(r) \/ r = "NUL"

\* The offset at which the letters and digits that begin at a end.
RECURSIVE IdentEnd(_, _)
IdentEnd(in, a) ==
    IF a >= Len(in) THEN a
    ELSE LET d == DecodeRuneInString(in, a)
         IN IF IsLetter(d.rune) \/ IsDigit(d.rune) THEN IdentEnd(in, a + d.width) ELSE a

InsertFirst(in) == KeywordAt(in, SkipFrom(in, 0), <<"i", "n", "s", "e", "r", "t">>)

\* What an insert statement is to deliver, read off the input: the elements
\* that are there in order, an error at the first that is not, then the end.
InsertExpected(in) ==
    LET a1 == SkipFrom(in, SkipFrom(in, 0) + 6)
        a2 == SkipFrom(in, a1 + 4)
        a3 == SkipFrom(in, IdentEnd(in, a2))
    IN (IF ~KeywordAt(in, a1, Into)
        THEN <<"tokenTypeSqlInsert", "tokenTypeError">>
        ELSE IF ~IsLetter(RuneAt(in, a2))
        THEN <<"tokenTypeSqlInsert", "tokenTypeSqlInto", "tokenTypeError">>
        ELSE IF RuneAt(in, a3) # "("
        THEN <<"tokenTypeSqlInsert", "tokenTypeSqlInto", "tokenTypeSqlTable",
               "tokenTypeError">>
        ELSE <<"tokenTypeSqlInsert", "tokenTypeSqlInto", "tokenTypeSqlTable",
               "tokenTypeSqlLeftParenthesis">>)
       \o <<"tokenTypeEOF">>

IsPrefix(s, t) == Len(s) <= Len(t) /\ SubSeq(t, 1, Len(s)) = s

\* C19 insert sequencing: for an input whose first word is insert (a word
\* ends at white space, at a zero byte or at the end of the input) the
\* tokens are delivered in the order insert keyword, into keyword, table
\* name, left parenthesis, one per state function and each after the one
\* before it; at the first element that is missing or malformed an error
\* token is delivered in its place and none of the later elements is.
C19_InsertSequencing ==
    InsertFirst(l.input) =>
        /\ IsPrefix(Types(l.tokens), InsertExpected(l.input))
        /\ state = "returned" => Types(l.tokens) = InsertExpected(l.input)
        /\ state = "lexSqlInsertInto" => Types(l.tokens) = <<"tokenTypeSqlInsert">>
        /\ state = "lexSqlInsertIntoTable" =>
              Types(l.tokens) = <<"tokenTypeSqlInsert", "tokenTypeSqlInto">>
        /\ state = "lexSqlInsertIntoTableLeftParenthesis" =>
              Types(l.tokens) = <<"tokenTypeSqlInsert", "tokenTypeSqlInto",
                                  "tokenTypeSqlTable">>

C19_Witness ==
    /\ state = "returned"
    /\ InsertFirst(l.input)
    /\ Types(l.tokens) = <<"tokenTypeSqlInsert", "tokenTypeSqlInto", "tokenTypeSqlTable",
                           "tokenTypeSqlLeftParenthesis", "tokenTypeEOF">>
    /\ l.tokens[3].val = <<"t", "1">>

\* The state function named, applied to the lexer.
StateFunction(name, lx) ==
    CASE name = "lexCommand" -> lexCommand(lx)
      [] name = "lexSqlInsertInto" -> lexSqlInsertInto(lx)
      [] name = "lexSqlInsertIntoTable" -> lexSqlInsertIntoTable(lx)
      [] name = "lexSqlInsertIntoTableLeftParenthesis" ->
             lexSqlInsertIntoTableLeftParenthesis(lx)

\* How many state functions may still run.
Rank(name) ==
    CASE name = "lexCommand" -> 4
      [] name = "lexSqlInsertInto" -> 3
      [] name = "lexSqlInsertIntoTable" -> 2
      [] name = "lexSqlInsertIntoTableLeftParenthesis" -> 1
      [] OTHER -> 0

\* The state function that is next comes back, within the input, with one
\* more token delivered and a state that is nearer to nil.
Advances ==
    state \in {"lexCommand", "lexSqlInsertInto", "lexSqlInsertIntoTable",
               "lexSqlInsertIntoTableLeftParenthesis"} =>
        LET r == StateFunction(state, l)
        IN /\ Rank(r.fn) < Rank(state)
           /\ Len(r.l.tokens) = Len(l.tokens) + 1
           /\ r.l.pos <= Len(l.input)

\* C20 lexer termination: for every input the run loop reaches the nil
\* state after finitely many state functions, each of which comes back (its
\* scanning loops stop at or before the end of the input), and the
\* end-of-input token is eventually delivered.
C20_Terminates ==
    /\ []Advances
    /\ <>(/\ state = "returned"
          /\ l.tokens # <<>>
          /\ l.tokens[Len(l.tokens)].typ = "tokenTypeEOF")

C20_Witness ==
    /\ state = "returned"
    /\ l.tokens[Len(l.tokens)].typ = "tokenTypeEOF"
    /\ Len(l.tokens) = 2
    /\ l.tokens[1].typ = "tokenTypeCmdStatus"
    /\ l.pos = Len(l.input)

(***************************************************************************)
(* Claims about the mysql bridge productions                               *)
(***************************************************************************)
\* The whole stream that follows the mysql keyword.
Stream == p.produced \o p.tokens

AfterConnect ==
    /\ pc = "returned"
    /\ Len(Stream) >= 2
    /\ Stream[1].typ = "tokenTypeSqlConnect"

\* C9: when the token after connect is a value token with text A and the
\* token after that is the end of input, parseSqlMysql returns a connect
\* request whose connectionAddress is A, and no error.
C9_ConnectAddress ==
    (/\ AfterConnect
     /\ Stream[2].typ = "tokenTypeSqlValue"
     /\ Len(Stream) >= 3 /\ Stream[3].typ = "tokenTypeEOF")
    => result = [kind |-> "mysqlConnectRequest", connectionAddress |-> Stream[2].val]

C9_Witness ==
    /\ pc = "returned"
    /\ Stream = <<Token("tokenTypeSqlConnect", <<"connect">>),
                  Token("tokenTypeSqlValue", <<"1.2.3.4:3306">>),
                  Token("tokenTypeEOF", <<>>)>>
    /\ result.kind = "mysqlConnectRequest"
    /\ result.connectionAddress = <<"1.2.3.4:3306">>

\* C10: when the token after connect is not a value token (the end of
\* input, as in "mysql connect", among others), parseSqlMysql returns an
\* error request: it does not fault and it returns no connect request, with
\* an empty address or any other.
C10_ConnectWithoutAddress ==
    (AfterConnect /\ Stream[2].typ # "tokenTypeSqlValue")
    => result.kind = "errorRequest" /\ ~p.fault

C10_Witness ==
    /\ pc = "returned"
    /\ Stream = <<Token("tokenTypeSqlConnect", <<"connect">>), Token("tokenTypeEOF", <<>>)>>
    /\ result.kind = "errorRequest"

\* The production parseSqlMysql enters for a token type ("none": no production).
ProductionOf(typ) ==
    CASE typ = "tokenTypeSqlConnect" -> "parseMysqlConnect"
      [] typ = "tokenTypeSqlDisconnect" -> "parseMysqlDisconnect"
      [] typ = "tokenTypeSqlSubscribe" -> "parseMysqlSubscribe"
      [] typ = "tokenTypeSqlUnsubscribe" -> "parseMysqlUnsubscribe"
      [] OTHER -> "none"

\* The kind of request a production returns.
RequestOf(production) ==
    CASE production = "parseMysqlConnect" -> "mysqlConnectRequest"
      [] production = "parseMysqlDisconnect" -> "mysqlDisconnectRequest"
      [] production = "parseMysqlSubscribe" -> "mysqlSubscribeRequest"
      [] production = "parseMysqlUnsubscribe" -> "mysqlUnsubscribeRequest"
      [] OTHER -> "none"

\* The number of tokens a production expects before the end of input.
Expected(production) == IF production = "parseMysqlConnect" THEN 1 ELSE 0

\* C11: a bridge production (connect, disconnect, subscribe, unsubscribe)
\* returns its request only if the one token pulled after the tokens it
\* expects is the end of input; when any other token stands there the
\* result is a parse error and not the request.
C11_NoTrailingInput ==
    (pc = "returned" /\ ProductionOf(Stream[1].typ) # "none") =>
        LET prod == ProductionOf(Stream[1].typ)
            k == 2 + Expected(prod)
        IN /\ result.kind # "errorRequest" =>
                /\ result.kind = RequestOf(prod)
                /\ Len(p.produced) = k
                /\ p.produced[k].typ = "tokenTypeEOF"
           /\ (/\ prod = "parseMysqlConnect" => Stream[2].typ = "tokenTypeSqlValue"
               /\ Len(Stream) >= k
               /\ Stream[k].typ # "tokenTypeEOF")
                => result.kind = "errorRequest"

C11_Witness ==
    /\ pc = "returned"
    /\ Len(Stream) >= 3
    /\ Stream[1].typ = "tokenTypeSqlUnsubscribe"
    /\ Stream[2].typ = "tokenTypeSqlId"
    /\ result.kind = "errorRequest"

\* The token after the bridge keyword selects its production and no other is
\* entered.
RoutesByType ==
    pc \notin {"parseSqlMysql", "returned"} =>
        /\ Len(p.produced) = 1
        /\ pc = ProductionOf(p.produced[1].typ)

\* parseSqlMysql has returned for a token that selects no production.
NoProduction == pc = "returned" /\ ProductionOf(Stream[1].typ) = "none"

\* C12 as stated: the token after the bridge keyword routes to the connect,
\* disconnect, subscribe or unsubscribe production by its type, and every
\* other token type yields a parse error with the message "invalid bridge
\* request", no production being entered.
C12_InvalidBridgeRequest ==
    /\ RoutesByType
    /\ NoProduction =>
          /\ result = [kind |-> "errorRequest", err |-> <<"invalid bridge request">>]
          /\ Len(p.produced) = 1

\* C12 amended: as stated, with the message the code gives, "invalid mysql
\* request".
C12_InvalidMysqlRequest ==
    /\ RoutesByType
    /\ NoProduction =>
          /\ result = [kind |-> "errorRequest", err |-> <<"invalid mysql request">>]
          /\ Len(p.produced) = 1

C12_Witness ==
    /\ NoProduction
    /\ Stream[1].typ = "tokenTypeSqlValue"
    /\ Len(Stream) = 3
    /\ result.kind = "errorRequest"

(***************************************************************************)
(* Claims about the client                                                 *)
(***************************************************************************)
\* The write and the read of the last Execute both succeeded and the
\* response carries the id that was sent.
ExecuteSucceeds ==
    /\ client.rw.valid
    /\ exec.werr = "nil"
    /\ exec.msg.err = "nil"
    /\ exec.msg.header # <<>>
    /\ exec.msg.header[1].RequestId = exec.sent

\* C21 as stated: whatever the write and the read do (not connected, write
\* error, write ok but read error, a response with another request id),
\* Execute returns false with an error string that is not empty, so that
\* Failed() is true, and it never faults; it returns true only when the write
\* and the read both succeed and the response's request id is the id sent.
C21_ExecuteReportsFailure ==
    exec.op = "Execute" =>
        /\ exec.ret # "panic"
        /\ exec.ret = "true" <=> ExecuteSucceeds
        /\ ~ExecuteSucceeds => exec.ret = "false" /\ Failed(client)

(***************************************************************************)
(* Specifications                                                          *)
(***************************************************************************)
LexIdle == l = [input |-> <<>>, start |-> 0, pos |-> 0, width |-> 0, tokens |-> <<>>]
           /\ state = "idle"
ClientIdle == ClientInit

ParseIdle == p = [tokens |-> <<>>, produced |-> <<>>, fault |-> FALSE] /\ pc = "idle" /\ result = [kind |-> "none"]

Init == TagInit /\ LexIdle /\ ParseIdle /\ ClientIdle

Next ==
    \/ \E r \in Rows : AddTag(r) /\ UNCHANGED <<lexVars, parseVars, clientVars>>
    \/ \E r \in Rows : RemoveTag(r) /\ UNCHANGED <<lexVars, parseVars, clientVars>>

Spec == Init /\ [][Next]_vars

TagIdle ==
    /\ heap = [a \in Addrs |-> tag(0)] /\ ntags = 0 /\ head = Nil
    /\ handle = [r \in Rows |-> Nil] /\ live = {}
    /\ ownerTakes = "first" /\ locate = "walk" /\ phase = "adding" /\ call = NoCall

LexSpecInit == LexInit /\ TagIdle /\ ParseIdle /\ ClientIdle

LexNext ==
    \/ LexCommand /\ UNCHANGED <<tagVars, parseVars, clientVars>>
    \/ LexSqlInsertInto /\ UNCHANGED <<tagVars, parseVars, clientVars>>
    \/ LexSqlInsertIntoTable /\ UNCHANGED <<tagVars, parseVars, clientVars>>
    \/ LexSqlInsertIntoTableLeftParenthesis /\ UNCHANGED <<tagVars, parseVars, clientVars>>
    \/ RunEmitEOF /\ UNCHANGED <<tagVars, parseVars, clientVars>>

LexSpec == LexSpecInit /\ [][LexNext]_vars

\* run is a plain loop on the caller's thread: while a state function or the
\* final emit is left to execute, it is executed.
LexFairInit == LexIdle /\ TagIdle /\ ParseIdle /\ ClientIdle

LexFairNext ==
    \/ Lex /\ UNCHANGED <<tagVars, parseVars, clientVars>>
    \/ LexNext

StateFunctions ==
    {"lexCommand", "lexSqlInsertInto", "lexSqlInsertIntoTable",
     "lexSqlInsertIntoTableLeftParenthesis"}

\* The caller and run are one sequential thread: the call of lex, each
\* iteration of run's loop and run's final emit are executed when they are
\* next.  For the loop this is weak fairness with its ENABLED written out:
\* a state function can step, and changes vars, exactly when state names it.
LexFairness ==
    /\ WF_vars(Lex /\ UNCHANGED <<tagVars, parseVars, clientVars>>)
    /\ WF_vars(RunEmitEOF /\ UNCHANGED <<tagVars, parseVars, clientVars>>)
    /\ \/ []<>(state \notin StateFunctions)
       \/ []<><<LexNext /\ state \in StateFunctions>>_vars

LexFairSpec == LexFairInit /\ [][LexFairNext]_vars /\ LexFairness

ParseSpecInit == ParseInit /\ TagIdle /\ LexIdle /\ ClientIdle

ParseNext ==
    \/ ParseSqlMysql /\ UNCHANGED <<tagVars, lexVars, clientVars>>
    \/ ParseMysqlConnect /\ UNCHANGED <<tagVars, lexVars, clientVars>>
    \/ ParseMysqlDisconnect /\ UNCHANGED <<tagVars, lexVars, clientVars>>
    \/ ParseMysqlSubscribe /\ UNCHANGED <<tagVars, lexVars, clientVars>>
    \/ ParseMysqlUnsubscribe /\ UNCHANGED <<tagVars, lexVars, clientVars>>

ParseSpec == ParseSpecInit /\ [][ParseNext]_vars

ClientSpecInit == ClientInit /\ TagIdle /\ LexIdle /\ ParseIdle

ClientNext ==
    \/ CallConnect /\ UNCHANGED <<tagVars, lexVars, parseVars>>
    \/ CallDisconnect /\ UNCHANGED <<tagVars, lexVars, parseVars>>
    \/ CallExecute /\ UNCHANGED <<tagVars, lexVars, parseVars>>

ClientSpec == ClientSpecInit /\ [][ClientNext]_vars

====
